---- MODULE Spec2Model ----
(***************************************************************************)
(* Model of protodec-rs: the varint/tag/zigzag primitives                  *)
(* (src/src/proto/utils.rs), the field codecs (src/src/proto/field.rs),    *)
(* Message (src/src/proto/message.rs) and the three decoders               *)
(* (src/src/parser/parser.rs).                                             *)
(*                                                                         *)
(* Representation.  A u64 (and an i32/u32/i64 bit pattern) is the set of   *)
(* the positions of its 1 bits, so that shifts, masks, |, ^ and casts are  *)
(* exact at width 64 (TLC's own integers are 32 bits wide).  A byte is a   *)
(* number 0..255, a byte buffer a sequence of bytes.  Byte counts          *)
(* (readed, index), which the code holds in u64 but which never exceed a   *)
(* buffer length, are natural numbers.                                     *)
(***************************************************************************)
EXTENDS Integers, Sequences, FiniteSets, TLC

VARIABLES build, pc, var, gen, field, into, ends, out, out2

vars == <<build, pc, var, gen, field, into, ends, out, out2>>

(***************************************************************************)
(* Bit-set arithmetic at width 64                                          *)
(***************************************************************************)
Bit64 == 0..63

RECURSIVE NatOf(_)
NatOf(S) ==
  IF S = {} THEN 0
  ELSE LET b == CHOOSE x \in S : TRUE IN 2^b + NatOf(S \ {b})

BitsOf(n) == {b \in 0..29 : (n \div 2^b) % 2 = 1}

\* the bit pattern of a byte
BitsOfByte(x) == {b \in 0..7 : (x \div 2^b) % 2 = 1}

\* the number held in the low 8 bits of a bit pattern
ByteOf(S) ==
  (IF 0 \in S THEN 1 ELSE 0) + (IF 1 \in S THEN 2 ELSE 0)
  + (IF 2 \in S THEN 4 ELSE 0) + (IF 3 \in S THEN 8 ELSE 0)
  + (IF 4 \in S THEN 16 ELSE 0) + (IF 5 \in S THEN 32 ELSE 0)
  + (IF 6 \in S THEN 64 ELSE 0) + (IF 7 \in S THEN 128 ELSE 0)

Shl(x, s) == {b + s : b \in {c \in x : c + s < 64}}

Shr(x, s) == {b - s : b \in {c \in x : c >= s}}

Xor(x, y) == (x \ y) \cup (y \ x)

Low(x, w) == {b \in x : b < w}

SignExtend32_mut(x) == Low(x, 32)

\* i32 as u64: sign extension
SignExtend32(x) == IF 31 \in x THEN Low(x, 32) \cup (32..63) ELSE Low(x, 32)

\* a u64 compared with a buffer length (as usize on a 64-bit target)
GtNat(x, n) == (\E b \in x : b > 29) \/ NatOf(x) > n

\* u64 + u64 where the second operand n is a byte count below 2^30: the
\* wrapped sum and whether the addition overflowed.  The low 30 bits are
\* added as numbers, the carry is propagated into the high 34 bits.
HighPlusOne(high) ==
  LET zeros == (0..33) \ high
  IN IF zeros = {} THEN {}
     ELSE LET z == CHOOSE k \in zeros : \A j \in zeros : k <= j
          IN (high \ (0..(z - 1))) \cup {z}

Add64_join(high, low) ==
  [sum |-> BitsOf(low % 2^30)
           \cup Shl(IF low < 2^30 THEN high ELSE HighPlusOne(high), 30),
   carry |-> IF low >= 2^30 /\ (0..33) \subseteq high THEN 1 ELSE 0]

Add64(x, n) == Add64_join(Shr(x, 30), NatOf(Low(x, 30)) + n)

(***************************************************************************)
(* src/src/proto/utils.rs                                                  *)
(***************************************************************************)
RECURSIVE serialize_varint_loop(_)
serialize_varint_loop(x) ==
  IF x = {} THEN <<>>
  ELSE <<ByteOf(Low(x, 7)) + (IF Shr(x, 7) # {} THEN 128 ELSE 0)>>
         \o serialize_varint_loop(Shr(x, 7))

serialize_varint(v) == IF v = {} THEN <<0>> ELSE serialize_varint_loop(v)

\* The shift of the i-th group (0-based) by i * 7 bits.  A shift amount of
\* 64 or more is an arithmetic overflow: a build with overflow checks
\* panics, a build without them masks the amount to its low 6 bits.
VarintShift_mut(i) == i * 8

VarintShift(i) == i * 7

RECURSIVE deserialize_varint_loop(_, _, _)
deserialize_varint_loop(g, i, result) ==
  IF i > Len(g) THEN [st |-> "Ok", result |-> result, readed |-> 0]
  ELSE LET x == g[i]
           sh == VarintShift(i - 1)
       IN IF sh >= 64 /\ build = "debug"
          THEN [st |-> "Panic", result |-> result, readed |-> 0]
          ELSE LET r == result \cup Shl(BitsOfByte(x % 128), sh % 64)
               IN IF x \div 128 = 0
                  THEN [st |-> "Ok", result |-> r, readed |-> i]
                  ELSE deserialize_varint_loop(g, i + 1, r)

deserialize_varint(g) == deserialize_varint_loop(g, 1, {})

generate_key(field_number, wire_type) ==
  Shl(Low(field_number, 61), 3) \cup BitsOfByte(wire_type)

parse_key_mut(key) == [index |-> Shr(key, 3), type_int |-> ByteOf(Low(key, 2))]

parse_key(key) == [index |-> Shr(key, 3), type_int |-> ByteOf(Low(key, 3))]

(***************************************************************************)
(* src/src/proto/field.rs: wire types, field types, the field factory      *)
(***************************************************************************)
Varint == 0
Double == 1
Buffer == 2
StartGroup == 3
EndGroup == 4
Float == 5

\* impl From<FieldType> for VariantTypeRaw, as u8
VariantTypeRaw_from(item) ==
  CASE item \in {"Int32", "Int64", "UInt32", "UInt64", "SInt32", "SInt64",
                 "Bool", "Enum"} -> Varint
    [] item \in {"Fixed64", "SFixed64", "Double"} -> Double
    [] item \in {"Embedded", "Repeated", "Bytes", "String"} -> Buffer
    [] item = "StartGroup" -> StartGroup
    [] item = "EndGroup" -> EndGroup
    [] item \in {"Fixed32", "SFixed32", "Float"} -> Float

\* impl From<FieldType> for Box<dyn FieldTrait>: the codec (struct) that is
\* built for a field type
FieldType_into(item) ==
  CASE item = "Int32" -> "Int32Field"
    [] item = "Int64" -> "Int64Field"
    [] item = "UInt32" -> "UInt32Field"
    [] item = "UInt64" -> "UInt64Field"
    [] item = "SInt32" -> "SInt32Field"
    [] item = "SInt64" -> "SInt64Field"
    [] item = "Bool" -> "BoolField"
    [] item = "Fixed64" -> "Fixed64Field"
    [] item = "SFixed64" -> "SFixed64Field"
    [] item = "Double" -> "DoubleField"
    [] item = "Embedded" -> "EmbeddedField"
    [] item = "Bytes" -> "BytesField"
    [] item = "String" -> "StringField"
    [] item = "StartGroup" -> "StartGroupField"
    [] item = "Fixed32" -> "Fixed32Field"
    [] item = "SFixed32" -> "Fixed64Field"
    [] item = "Float" -> "FloatField"

\* ZigZag decoding (utils.rs), on bit sets
decode_zigzag_s32_mut(v) == Low(Xor(Shl(v, 31), Shr(v, 1)), 32)

decode_zigzag_s32(v) ==
  IF 0 \notin v THEN Low(Xor(Shl(v, 31), Shr(v, 1)), 32)
  ELSE Low(Xor(Xor(Shl(v, 31), Shr(v, 1)), 0..30), 32)

decode_zigzag_s64(v) ==
  IF 0 \notin v THEN Xor(Shl(v, 63), Shr(v, 1))
  ELSE Xor(Xor(Shl(v, 63), Shr(v, 1)), 0..62)

\* ZigZag encoding (utils.rs); the 32-bit form works in u32 and widens last
encode_zigzag_s32(v) ==
  IF 31 \notin v THEN Xor(Low(Shl(Low(v, 32), 1), 32), Shr(Low(v, 32), 31))
  ELSE Xor(Low(Shl(Xor(Low(v, 32), 0..30), 1), 32), Shr(Low(v, 32), 31))

encode_zigzag_s64(v) ==
  IF 63 \notin v THEN Xor(Shl(v, 1), Shr(v, 63))
  ELSE Xor(Shl(Xor(v, 0..62), 1), Shr(v, 63))

(***************************************************************************)
(* Results of a decode: Ok with the field and the byte count, Err with the *)
(* ErrorType, or a panic of the thread.                                    *)
(***************************************************************************)
Err(t) == [st |-> "Err", type_ |-> t]

\* Error::new(msg, type_) of the decoders, whose message reaches the caller;
\* None as type_ is GeneralError
Error_new(details, type_) == [st |-> "Err", details |-> details, type_ |-> type_]
Panic == [st |-> "Panic"]
OkField(f, i) == [st |-> "Ok", field |-> f, i |-> i]

\* into[a..] and into[a..b]
SliceFrom(s, a) == SubSeq(s, a + 1, Len(s))
Slice(s, a, b) == SubSeq(s, a + 1, b)

NewField(codec, type_, number, data) ==
  [codec |-> codec, type_ |-> type_, number |-> number, data |-> data]

\* little-endian bytes <-> bit pattern
RECURSIVE from_le_bytes(_)
from_le_bytes(ptr) ==
  IF ptr = <<>> THEN {}
  ELSE BitsOfByte(Head(ptr)) \cup Shl(from_le_bytes(Tail(ptr)), 8)

to_le_bytes(data, width) == [j \in 1..width |-> ByteOf(Shr(data, 8 * (j - 1)))]

(***************************************************************************)
(* The varint codecs.  Every one reads the tag, checks the wire type,      *)
(* checks that a byte follows the tag, reads the payload varint, applies   *)
(* its own acceptance test and conversion and returns readed + readed_x.   *)
(***************************************************************************)
\* the acceptance test of Int32, UInt32 and SInt32: (value >> 0x32) != 0
Exceeds32(value) == Shr(value, 50) # {}

\* the acceptance test of each varint codec: Bool rejects (value >> 1) != 0,
\* the 64-bit codecs have none
Rejects(codec, value) ==
  CASE codec \in {"Int32Field", "UInt32Field", "SInt32Field"} -> Exceeds32(value)
    [] codec = "BoolField" -> Shr(value, 1) # {}
    [] OTHER -> FALSE

\* the conversion of the payload varint to the field's data
Converts(codec, value) ==
  CASE codec \in {"Int32Field", "UInt32Field"} -> Low(value, 32)
    [] codec = "SInt32Field" -> decode_zigzag_s32(value)
    [] codec = "SInt64Field" -> decode_zigzag_s64(value)
    [] codec = "BoolField" -> value # {}
    [] OTHER -> value

\* after the payload varint v is read
VarintValue(codec, type_, number, readed, v) ==
  IF v.st = "Panic" THEN Panic
  ELSE IF Rejects(codec, v.result) THEN Err("IncorrectData")
  ELSE OkField(NewField(codec, type_, number, Converts(codec, v.result)),
               readed + v.readed)

\* after the tag varint k is read
VarintTag(b, codec, type_, k) ==
  IF k.st = "Panic" THEN Panic
  ELSE IF parse_key(k.result).type_int # Varint THEN Err("IncorrectType")
  ELSE IF k.readed >= Len(b) THEN Err("IncorrectData")
  ELSE VarintValue(codec, type_, parse_key(k.result).index, k.readed,
                   deserialize_varint(SliceFrom(b, k.readed)))

VarintDeserialize(b, codec, type_) ==
  VarintTag(b, codec, type_, deserialize_varint(b))

Int32Field_deserialize(b) == VarintDeserialize(b, "Int32Field", "Int32")

Int64Field_deserialize(b) == VarintDeserialize(b, "Int64Field", "Int32")

UInt32Field_deserialize(b) == VarintDeserialize(b, "UInt32Field", "UInt32")

UInt64Field_deserialize(b) == VarintDeserialize(b, "UInt64Field", "Int32")

SInt32Field_deserialize(b) == VarintDeserialize(b, "SInt32Field", "UInt32")

SInt64Field_deserialize(b) == VarintDeserialize(b, "SInt64Field", "Int32")

BoolField_deserialize(b) == VarintDeserialize(b, "BoolField", "Bool")

(***************************************************************************)
(* The fixed-width codecs: tag, wire type, bounds check readed + width,    *)
(* then the slice into[readed..readed + width].                            *)
(***************************************************************************)
FixedTag(b, wire, width, codec, type_, k) ==
  IF k.st = "Panic" THEN Panic
  ELSE IF parse_key(k.result).type_int # wire THEN Err("IncorrectType")
  ELSE IF k.readed + width > Len(b) THEN Err("IncorrectData")
  ELSE OkField(NewField(codec, type_, parse_key(k.result).index,
                        from_le_bytes(Slice(b, k.readed, k.readed + width))),
               k.readed + width)

FixedDeserialize(b, wire, width, codec, type_) ==
  FixedTag(b, wire, width, codec, type_, deserialize_varint(b))

Fixed32Field_deserialize(b) == FixedDeserialize(b, Float, 4, "Fixed32Field", "Fixed32")

SFixed32Field_deserialize(b) == FixedDeserialize(b, Float, 4, "SFixed32Field", "SFixed32")

Fixed64Field_deserialize(b) == FixedDeserialize(b, Double, 8, "Fixed64Field", "Fixed64")

SFixed64Field_deserialize(b) == FixedDeserialize(b, Double, 8, "SFixed64Field", "SFixed64")

DoubleField_deserialize(b) == FixedDeserialize(b, Double, 8, "DoubleField", "Double")

\* FloatField takes the slice into[readed..4], not into[readed..readed + 4],
\* and then indexes ptr[0..3]: slicing panics when readed > 4, indexing
\* panics when the slice is shorter than 4 bytes.
FloatTag(b, k) ==
  IF k.st = "Panic" THEN Panic
  ELSE IF parse_key(k.result).type_int # Float THEN Err("IncorrectType")
  ELSE IF k.readed + 4 > Len(b) THEN Err("IncorrectData")
  ELSE IF k.readed > 4 THEN Panic
  ELSE IF Len(Slice(b, k.readed, 4)) < 4 THEN Panic
  ELSE OkField(NewField("FloatField", "Float", parse_key(k.result).index,
                        from_le_bytes(SubSeq(Slice(b, k.readed, 4), 1, 4))),
               k.readed + 4)

FloatField_deserialize(b) == FloatTag(b, deserialize_varint(b))

(***************************************************************************)
(* The length-delimited codecs: tag, wire type, (String and Embedded only) *)
(* a byte must follow the tag, length varint, bounds check of              *)
(* readed + readed_1 + size against the buffer, then the payload slice.    *)
(* The u64 sum overflows for a large size: a checked build panics at the   *)
(* addition, an unchecked one wraps and panics at the slice whose end is   *)
(* before its start.                                                       *)
(***************************************************************************)
\* StringField rejects a payload byte x with x < 0x20 || x > 0x7F
IsAscii(payload) == \A j \in 1..Len(payload) : payload[j] >= 32 /\ payload[j] <= 127

\* String and Embedded check readed >= into.len() after the tag, Bytes does not
NeedsByte(codec) == codec \in {"StringField", "EmbeddedField"}

\* the decoded field: String and Bytes keep the payload as data, Embedded
\* keeps it in raw with an empty list of fields
BufferField(codec, number, payload) ==
  IF codec = "EmbeddedField"
  THEN [codec |-> "EmbeddedField", type_ |-> "Embedded", number |-> number,
        data |-> [fields |-> <<>>], raw |-> <<payload>>]
  ELSE NewField(codec, IF codec = "StringField" THEN "String" ELSE "Bytes",
                number, payload)

BufferPayload(codec, number, payload, end) ==
  IF codec = "StringField" /\ ~IsAscii(payload) THEN Err("IncorrectData")
  ELSE OkField(BufferField(codec, number, payload), end)

\* the bounds check of readed + readed_1 + size and the slice
BufferBounds(b, codec, number, start, sum) ==
  IF sum.carry = 1 /\ build = "debug" THEN Panic
  ELSE IF GtNat(sum.sum, Len(b)) THEN Err("IncorrectData")
  ELSE IF NatOf(sum.sum) < start THEN Panic
  ELSE BufferPayload(codec, number, Slice(b, start, NatOf(sum.sum)),
                     NatOf(sum.sum))

\* after the length varint s is read
BufferSize(b, codec, number, readed, s) ==
  IF s.st = "Panic" THEN Panic
  ELSE BufferBounds(b, codec, number, readed + s.readed,
                    Add64(s.result, readed + s.readed))

\* after the tag varint k is read
BufferTag(b, codec, k) ==
  IF k.st = "Panic" THEN Panic
  ELSE IF parse_key(k.result).type_int # Buffer THEN Err("IncorrectType")
  ELSE IF NeedsByte(codec) /\ k.readed >= Len(b) THEN Err("IncorrectData")
  ELSE BufferSize(b, codec, parse_key(k.result).index, k.readed,
                  deserialize_varint(SliceFrom(b, k.readed)))

BufferDeserialize(b, codec) == BufferTag(b, codec, deserialize_varint(b))

StringField_deserialize(b) == BufferDeserialize(b, "StringField")

BytesField_deserialize(b) == BufferDeserialize(b, "BytesField")

EmbeddedField_deserialize(b) == BufferDeserialize(b, "EmbeddedField")

\* StartGroupField: the tag only; the field is labelled Int32
StartGroupTag(k) ==
  IF k.st = "Panic" THEN Panic
  ELSE IF parse_key(k.result).type_int # StartGroup THEN Err("IncorrectType")
  ELSE OkField(NewField("StartGroupField", "Int32", parse_key(k.result).index, {}),
               k.readed)

StartGroupField_deserialize(b) == StartGroupTag(deserialize_varint(b))

\* dynamic dispatch of FieldTrait::deserialize on the codec
Deserialize(codec, b) ==
  CASE codec = "Int32Field" -> Int32Field_deserialize(b)
    [] codec = "Int64Field" -> Int64Field_deserialize(b)
    [] codec = "UInt32Field" -> UInt32Field_deserialize(b)
    [] codec = "UInt64Field" -> UInt64Field_deserialize(b)
    [] codec = "SInt32Field" -> SInt32Field_deserialize(b)
    [] codec = "SInt64Field" -> SInt64Field_deserialize(b)
    [] codec = "BoolField" -> BoolField_deserialize(b)
    [] codec = "Fixed32Field" -> Fixed32Field_deserialize(b)
    [] codec = "SFixed32Field" -> SFixed32Field_deserialize(b)
    [] codec = "FloatField" -> FloatField_deserialize(b)
    [] codec = "Fixed64Field" -> Fixed64Field_deserialize(b)
    [] codec = "SFixed64Field" -> SFixed64Field_deserialize(b)
    [] codec = "DoubleField" -> DoubleField_deserialize(b)
    [] codec = "StringField" -> StringField_deserialize(b)
    [] codec = "BytesField" -> BytesField_deserialize(b)
    [] codec = "EmbeddedField" -> EmbeddedField_deserialize(b)
    [] codec = "StartGroupField" -> StartGroupField_deserialize(b)

(***************************************************************************)
(* FieldTrait::serialize of every codec.  The wire type of the tag comes   *)
(* from the field's type_ label, not from its codec.                       *)
(***************************************************************************)
RECURSIVE serialize(_)
RECURSIVE Message_serialize(_)

serialize_key(f) ==
  serialize_varint(generate_key(f.number, VariantTypeRaw_from(f.type_)))

serialize(f) ==
  serialize_key(f) \o
  CASE f.codec = "Int32Field" -> serialize_varint(SignExtend32(f.data))
    [] f.codec = "Int64Field" -> serialize_varint(f.data)
    [] f.codec = "UInt32Field" -> serialize_varint(Low(f.data, 32))
    [] f.codec = "UInt64Field" -> serialize_varint(f.data)
    [] f.codec = "SInt32Field" -> serialize_varint(encode_zigzag_s32(f.data))
    [] f.codec = "SInt64Field" -> serialize_varint(encode_zigzag_s64(f.data))
    [] f.codec = "BoolField" -> serialize_varint(IF f.data THEN {0} ELSE {})
    [] f.codec \in {"Fixed32Field", "SFixed32Field", "FloatField"} ->
         to_le_bytes(f.data, 4)
    [] f.codec \in {"Fixed64Field", "SFixed64Field", "DoubleField"} ->
         to_le_bytes(f.data, 8)
    [] f.codec \in {"StringField", "BytesField"} ->
         serialize_varint(BitsOf(Len(f.data))) \o f.data
    [] f.codec = "StartGroupField" -> <<>>
    [] f.codec = "EmbeddedField" ->
         LET embedded == Message_serialize(f.data.fields)
         IN serialize_varint(BitsOf(Len(embedded))) \o embedded

\* Message::serialize: the fields' encodings in order
Message_serialize(fields) ==
  IF fields = <<>> THEN <<>>
  ELSE serialize(Head(fields)) \o Message_serialize(Tail(fields))

(***************************************************************************)
(* src/src/parser/parser.rs                                                *)
(***************************************************************************)
SimpleFieldsOrder_mut ==
  <<"Int32", "UInt64", "UInt32", "Int64", "SInt32", "SInt64", "Bool",
    "Fixed64", "SFixed64", "Double", "Fixed32", "SFixed32", "Float",
    "String", "Embedded", "Bytes", "StartGroup">>

SimpleFieldsOrder ==
  <<"Int32", "Int64", "UInt32", "UInt64", "SInt32", "SInt64", "Bool",
    "Fixed64", "SFixed64", "Double", "Fixed32", "SFixed32", "Float",
    "String", "Embedded", "Bytes", "StartGroup">>

try_deserialize_specific_field(b, field_type) ==
  Deserialize(FieldType_into(field_type), b)

\* the for loop of try_deserialize_field from the n-th type on
RECURSIVE try_deserialize_field_from(_, _)
try_deserialize_field_match(b, n, r) ==
  IF r.st = "Err" THEN try_deserialize_field_from(b, n + 1) ELSE r

try_deserialize_field_from(b, n) ==
  IF n > Len(SimpleFieldsOrder)
  THEN Error_new("Failed to parse bytes", "GeneralError")
  ELSE try_deserialize_field_match(
         b, n, try_deserialize_specific_field(b, SimpleFieldsOrder[n]))

try_deserialize_field(b) == try_deserialize_field_from(b, 1)

\* Outcomes of a decoder: Ok, Err, Panic, and two ways of not returning.
\* Hang: a field was accepted with zero bytes consumed, so the loop repeats
\* the same iteration for ever, pushing the same field.  StackOverflow: an
\* Embedded candidate's payload is the whole slice being decoded, so the
\* recursive call repeats the same call for ever.
Decoded(fields, sizes, index) ==
  [st |-> "Ok", fields |-> fields, sizes |-> sizes, index |-> index]
Hang(fields, sizes) == [st |-> "Hang", fields |-> fields, sizes |-> sizes]
StackOverflow == [st |-> "StackOverflow"]

RECURSIVE Sum(_)
Sum(q) == IF q = <<>> THEN 0 ELSE Head(q) + Sum(Tail(q))

\* the Err(e) arm of SimpleParser::deserialize: the error is returned and
\* the fields decoded so far are dropped
SimpleParser_on_err_mut(e, fields, sizes, index) == Decoded(fields, sizes, index)

SimpleParser_on_err(e, fields, sizes, index) == e

\* SimpleParser::deserialize.  sizes is the list of the byte counts the
\* accepted fields returned (index is their sum).
RECURSIVE SimpleParser_loop(_, _, _, _)
\* the match on the result r of try_deserialize_field at the cursor
SimpleParser_match(b, index, fields, sizes, r) ==
  IF r.st = "Err" THEN SimpleParser_on_err(r, fields, sizes, index)
  ELSE IF r.st = "Panic" THEN Panic
  ELSE IF r.i = 0 THEN Hang(Append(fields, r.field), Append(sizes, 0))
  ELSE SimpleParser_loop(b, index + r.i, Append(fields, r.field),
                         Append(sizes, r.i))

SimpleParser_loop(b, index, fields, sizes) ==
  IF index = Len(b) THEN Decoded(fields, sizes, index)
  ELSE IF index > Len(b) THEN Panic
  ELSE SimpleParser_match(b, index, fields, sizes,
                          try_deserialize_field(SliceFrom(b, index)))

SimpleParser_deserialize(b) == SimpleParser_loop(b, 0, <<>>, <<>>)

\* FullParser::deserialize_fields and PartialParser::deserialize_fields are
\* the same code but for what happens when no type is found: the first
\* returns Err, the second Ok with the fields so far.
RECURSIVE deserialize_fields_loop(_, _, _, _, _)
RECURSIVE deserialize_fields_for(_, _, _)

NotFound == [st |-> "NotFound"]

\* the match on the nested decode e of the payload of the Embedded field r
deserialize_fields_embedded(slice, n, partial, r, e) ==
  IF e.st = "Err" THEN deserialize_fields_for(slice, n + 1, partial)
  ELSE IF e.st # "Ok" THEN e
  ELSE OkField([r.field EXCEPT !.data = [fields |-> e.fields]], r.i)

\* the match on the result r of the n-th type at a slice
deserialize_fields_match(slice, n, partial, r) ==
  IF r.st = "Panic" THEN Panic
  ELSE IF r.st = "Err" THEN deserialize_fields_for(slice, n + 1, partial)
  ELSE IF SimpleFieldsOrder[n] # "Embedded" THEN r
  ELSE IF r.field.codec # "EmbeddedField" \/ r.field.raw = <<>>
       THEN deserialize_fields_for(slice, n + 1, partial)
  ELSE IF r.field.raw[1] = slice THEN StackOverflow
  ELSE deserialize_fields_embedded(
         slice, n, partial, r,
         deserialize_fields_loop(r.field.raw[1], 0, <<>>, <<>>, partial))

\* the position of Embedded in fields_order: the types before it take the
\* default arm of the match, which continues on Err and breaks otherwise
FirstEmbedded ==
  CHOOSE n \in 1..Len(SimpleFieldsOrder) : SimpleFieldsOrder[n] = "Embedded"

\* the default arm over the types before Embedded: taken is the set of
\* those types, from the current one on, whose decode is not Err; the loop
\* breaks at the first of them
deserialize_fields_default(slice, partial, taken) ==
  IF taken = {} THEN deserialize_fields_for(slice, FirstEmbedded, partial)
  ELSE try_deserialize_specific_field(
         slice, SimpleFieldsOrder[CHOOSE k \in taken : \A j \in taken : k <= j])

\* the inner for loop over fields_order, from the n-th type on, at a slice
deserialize_fields_for(slice, n, partial) ==
  IF n > Len(SimpleFieldsOrder) THEN NotFound
  ELSE IF n < FirstEmbedded
       THEN deserialize_fields_default(
              slice, partial,
              {k \in n..(FirstEmbedded - 1) :
                 try_deserialize_specific_field(slice, SimpleFieldsOrder[k]).st # "Err"})
  ELSE deserialize_fields_match(
         slice, n, partial,
         try_deserialize_specific_field(slice, SimpleFieldsOrder[n]))

\* what deserialize_fields returns when no type accepts at the cursor
NoneFound_mut(fields, sizes, index, partial) == Decoded(fields, sizes, index)

NoneFound(fields, sizes, index, partial) ==
  IF partial THEN Decoded(fields, sizes, index)
  ELSE Error_new("Failed to find suitable field", "GeneralError")

\* after the for loop: r is the field found at the cursor, if any
deserialize_fields_found(b, index, fields, sizes, partial, r) ==
  IF r.st = "NotFound" THEN NoneFound(fields, sizes, index, partial)
  ELSE IF r.st # "Ok" THEN r
  ELSE IF r.i = 0 THEN Hang(Append(fields, r.field), Append(sizes, 0))
  ELSE deserialize_fields_loop(b, index + r.i, Append(fields, r.field),
                               Append(sizes, r.i), partial)

deserialize_fields_loop(b, index, fields, sizes, partial) ==
  IF index = Len(b) THEN Decoded(fields, sizes, index)
  ELSE IF index > Len(b) THEN Panic
  ELSE deserialize_fields_found(
         b, index, fields, sizes, partial,
         deserialize_fields_for(SliceFrom(b, index), 1, partial))

FullParser_deserialize_fields(b) == deserialize_fields_loop(b, 0, <<>>, <<>>, FALSE)

\* FullParser::deserialize
FullParser_deserialize(b) == FullParser_deserialize_fields(b)

PartialParser_deserialize_fields(b) == deserialize_fields_loop(b, 0, <<>>, <<>>, TRUE)

\* whether deserialize_map records the result of one start offset
Recorded_mut(message) == TRUE

Recorded(message) == message # <<>>

\* PartialParser::deserialize_map: one entry per start offset whose decode
\* is recorded, keyed by (start, start + end_bytes)
RECURSIVE deserialize_map_loop(_, _, _)
deserialize_map_match_mut(b, start_bytes, hashmap, r) ==
  IF r.st = "Err" THEN deserialize_map_loop(b, start_bytes + 1, hashmap)
  ELSE IF r.st # "Ok" THEN r
  ELSE deserialize_map_loop(
         b, start_bytes + 1,
         IF Recorded(r.fields)
         THEN hashmap \cup {[start |-> start_bytes, end |-> r.index,
                             fields |-> r.fields, sizes |-> r.sizes]}
         ELSE hashmap)

\* the match on the result r of deserialize_fields at one start offset
deserialize_map_match(b, start_bytes, hashmap, r) ==
  IF r.st = "Err" THEN deserialize_map_loop(b, start_bytes + 1, hashmap)
  ELSE IF r.st # "Ok" THEN r
  ELSE deserialize_map_loop(
         b, start_bytes + 1,
         IF Recorded(r.fields)
         THEN hashmap \cup {[start |-> start_bytes,
                             end |-> start_bytes + r.index,
                             fields |-> r.fields, sizes |-> r.sizes]}
         ELSE hashmap)

deserialize_map_loop_mut(b, start_bytes, hashmap) ==
  IF start_bytes >= Len(b) THEN [st |-> "Ok", map |-> hashmap]
  ELSE deserialize_map_match(
         b, start_bytes, hashmap,
         PartialParser_deserialize_fields(b))

deserialize_map_loop(b, start_bytes, hashmap) ==
  IF start_bytes >= Len(b) THEN [st |-> "Ok", map |-> hashmap]
  ELSE deserialize_map_match(
         b, start_bytes, hashmap,
         PartialParser_deserialize_fields(SliceFrom(b, start_bytes)))

PartialParser_deserialize_map(b) == deserialize_map_loop(b, 0, {})

(***************************************************************************)
(* Inputs of the varint primitives                                         *)
(***************************************************************************)
\* number of 1 bits in a sampled sparse u64
MaxOnes == 2
\* longest run of continuation bytes in a raw varint buffer
MaxContRun == 11

\* the first and last bit of every 7-bit group, and the 32- and 50-bit marks
BoundaryBits == {b \in Bit64 : b % 7 \in {0, 6}} \cup {31, 32, 49, 50, 63}

RECURSIVE Sparse(_)
Sparse(k) ==
  IF k = 0 THEN {{}}
  ELSE LET P == Sparse(k - 1) IN P \cup {S \cup {b} : S \in P, b \in BoundaryBits}

U64Values == Sparse(MaxOnes) \cup {Low(Bit64, w) : w \in BoundaryBits \cup {64}}

Rep(c, k) == [i \in 1..k |-> c]

RawVarints ==
  {Rep(c, k) \o t : c \in {128, 255, 130}, k \in 0..MaxContRun,
                    t \in {<<>>, <<0>>, <<1>>, <<127>>, <<1, 5>>}}

NoField == [codec |-> "None"]
NoOut == [st |-> "None"]

(***************************************************************************)
(* Freshly constructed fields: XField::new(name, number, data).  new       *)
(* labels an SInt32Field UInt32, an SFixed32Field Fixed32, an              *)
(* SFixed64Field Fixed64 and an EmbeddedField Bytes.                       *)
(***************************************************************************)
\* field numbers 1..MaxNumber, and 16 whose tag takes two bytes
MaxNumber == 2
\* number of 1 bits in a sampled sparse field value
MaxFieldOnes == 1

FieldNumbers == {BitsOf(n) : n \in 1..MaxNumber} \cup {BitsOf(16)}

Values64 == Sparse(MaxFieldOnes) \cup {Low(Bit64, 64), Low(Bit64, 63), BitsOf(150)}
Values32 == {Low(v, 32) : v \in Values64} \cup {Low(Bit64, 31)}
Payloads == {<<>>, <<104>>, <<104, 105>>, <<128>>, <<8, 1>>, <<12>>, <<8, 150>>}
Strings == {p \in Payloads : IsAscii(p)}

Int32Field_new(number, data) == NewField("Int32Field", "Int32", number, data)
Int64Field_new(number, data) == NewField("Int64Field", "Int64", number, data)
UInt32Field_new(number, data) == NewField("UInt32Field", "UInt32", number, data)
UInt64Field_new(number, data) == NewField("UInt64Field", "UInt64", number, data)
SInt32Field_new(number, data) == NewField("SInt32Field", "UInt32", number, data)
SInt64Field_new(number, data) == NewField("SInt64Field", "SInt64", number, data)
BoolField_new(number, data) == NewField("BoolField", "Bool", number, data)
Fixed32Field_new(number, data) == NewField("Fixed32Field", "Fixed32", number, data)
SFixed32Field_new(number, data) == NewField("SFixed32Field", "Fixed32", number, data)
FloatField_new(number, data) == NewField("FloatField", "Float", number, data)
Fixed64Field_new(number, data) == NewField("Fixed64Field", "Fixed64", number, data)
SFixed64Field_new(number, data) == NewField("SFixed64Field", "Fixed64", number, data)
DoubleField_new(number, data) == NewField("DoubleField", "Double", number, data)
StringField_new(number, data) == NewField("StringField", "String", number, data)
BytesField_new(number, data) == NewField("BytesField", "Bytes", number, data)
StartGroupField_new(number, data) == NewField("StartGroupField", "StartGroup", number, data)
EmbeddedField_new(number, data) ==
  [codec |-> "EmbeddedField", type_ |-> "Bytes", number |-> number,
   data |-> data, raw |-> <<>>]

ScalarFields ==
  {Int32Field_new(n, d) : n \in FieldNumbers, d \in Values32}
  \cup {Int64Field_new(n, d) : n \in FieldNumbers, d \in Values64}
  \cup {UInt32Field_new(n, d) : n \in FieldNumbers, d \in Values32}
  \cup {UInt64Field_new(n, d) : n \in FieldNumbers, d \in Values64}
  \cup {SInt32Field_new(n, d) : n \in FieldNumbers, d \in Values32}
  \cup {SInt64Field_new(n, d) : n \in FieldNumbers, d \in Values64}
  \cup {BoolField_new(n, d) : n \in FieldNumbers, d \in BOOLEAN}
  \cup {Fixed32Field_new(n, d) : n \in FieldNumbers, d \in Values32}
  \cup {SFixed32Field_new(n, d) : n \in FieldNumbers, d \in Values32}
  \cup {FloatField_new(n, d) : n \in FieldNumbers, d \in Values32}
  \cup {Fixed64Field_new(n, d) : n \in FieldNumbers, d \in Values64}
  \cup {SFixed64Field_new(n, d) : n \in FieldNumbers, d \in Values64}
  \cup {DoubleField_new(n, d) : n \in FieldNumbers, d \in Values64}
  \cup {StringField_new(n, d) : n \in FieldNumbers, d \in Strings}
  \cup {BytesField_new(n, d) : n \in FieldNumbers, d \in Payloads}
  \cup {StartGroupField_new(n, {}) : n \in FieldNumbers}

NestedFields ==
  {Int32Field_new(BitsOf(1), BitsOf(1)), StringField_new(BitsOf(2), <<104, 105>>)}

FreshFields ==
  ScalarFields
  \cup {EmbeddedField_new(n, [fields |-> q]) :
          n \in FieldNumbers, q \in {<<>>} \cup {<<f>> : f \in NestedFields}}

(***************************************************************************)
(* Specification of the field codecs: a fresh field is serialized and the  *)
(* encoding, or a proper prefix of it, is decoded by the field's own codec.*)
(***************************************************************************)
InitField ==
  /\ build \in {"debug", "release"}
  /\ pc = "new"
  /\ field \in FreshFields
  /\ var = {} /\ gen = <<>> /\ into = <<>> /\ ends = <<>>
  /\ out = NoOut /\ out2 = NoOut

\* field.serialize()
SerializeField ==
  /\ pc = "new"
  /\ into' = serialize(field)
  /\ gen' = into'
  /\ pc' = "serialized"
  /\ UNCHANGED <<build, var, field, ends, out, out2>>

\* field.deserialize(&encoding)
DeserializeField ==
  /\ pc = "serialized"
  /\ out' = Deserialize(field.codec, gen)
  /\ pc' = "decoded"
  /\ UNCHANGED <<build, var, gen, field, into, ends, out2>>

\* the caller keeps only the first k bytes of the encoding
CutEncoding ==
  /\ pc = "serialized"
  /\ \E k \in 0..(Len(into) - 1) :
       /\ gen' = SubSeq(into, 1, k)
  /\ pc' = "cut"
  /\ UNCHANGED <<build, var, field, into, ends, out, out2>>

\* field.deserialize(&prefix)
DeserializePrefix ==
  /\ pc = "cut"
  /\ out' = Deserialize(field.codec, gen)
  /\ pc' = "decoded_cut"
  /\ UNCHANGED <<build, var, gen, field, into, ends, out2>>

NextField == SerializeField \/ DeserializeField \/ CutEncoding \/ DeserializePrefix

SpecField == InitField /\ [][NextField]_vars

(***************************************************************************)
(* Specification of the decoders.  The input buffer is the encoding of a   *)
(* message followed by trailing bytes that are not an encoded field; each  *)
(* of the three decoders is run on it, and a decoded message is serialized *)
(* and decoded again.                                                      *)
(***************************************************************************)
\* number of fields in the encoded message
MaxFields == 2

ParserFields ==
  {Int32Field_new(BitsOf(1), BitsOf(1)),
   FloatField_new(BitsOf(1), 23..29),
   StringField_new(BitsOf(1), <<104>>),
   BytesField_new(BitsOf(1), <<128>>),
   BytesField_new(BitsOf(1), <<12>>),
   EmbeddedField_new(BitsOf(1), [fields |-> <<Int32Field_new(BitsOf(1), BitsOf(1))>>]),
   StartGroupField_new(BitsOf(1), {})}

RECURSIVE MessagesUpTo(_)
MessagesUpTo(n) ==
  IF n = 0 THEN {<<>>}
  ELSE LET P == MessagesUpTo(n - 1) IN P \cup {Append(m, f) : m \in P, f \in ParserFields}

\* trailing bytes: none, an end-group tag, a lone continuation byte, a
\* two-byte continuation run, a length of 2^64 - 1, and a continuation run
\* longer than a varint
Trailers ==
  {<<>>, <<12>>, <<128>>, <<130, 128>>,
   <<10, 255, 255, 255, 255, 255, 255, 255, 255, 255, 1>>,
   Rep(128, MaxContRun) \o <<1>>}

\* the end offsets of the encoded fields of a message that starts at offset
RECURSIVE FieldEnds(_, _)
FieldEnds(m, offset) ==
  IF m = <<>> THEN <<>>
  ELSE LET e == offset + Len(serialize(Head(m)))
       IN <<e>> \o FieldEnds(Tail(m), e)

\* ends records where the encoded fields of the message end in the buffer
InitParser ==
  /\ build \in {"debug", "release"}
  /\ pc = "input"
  /\ \E m \in MessagesUpTo(MaxFields), t \in Trailers :
       /\ into = Message_serialize(m) \o t
       /\ ends = FieldEnds(m, 0)
  /\ var = {} /\ gen = <<>> /\ field = NoField
  /\ out = NoOut /\ out2 = NoOut

\* parser.try_deserialize_field(&into)
TryDeserializeField ==
  /\ pc = "input"
  /\ out' = try_deserialize_field(into)
  /\ pc' = "field"
  /\ UNCHANGED <<build, var, gen, field, into, ends, out2>>

\* SimpleParser::new().deserialize(&into)
RunSimpleParser ==
  /\ pc = "input"
  /\ out' = SimpleParser_deserialize(into)
  /\ pc' = "simple"
  /\ UNCHANGED <<build, var, gen, field, into, ends, out2>>

\* FullParser::new().deserialize(&into)
RunFullParser ==
  /\ pc = "input"
  /\ out' = FullParser_deserialize(into)
  /\ pc' = "full"
  /\ UNCHANGED <<build, var, gen, field, into, ends, out2>>

\* PartialParser::new().deserialize_map(&into)
RunPartialParser ==
  /\ pc = "input"
  /\ out' = PartialParser_deserialize_map(into)
  /\ pc' = "map"
  /\ UNCHANGED <<build, var, gen, field, into, ends, out2>>

\* message.serialize() of a decoded message, decoded again by the parser
\* that produced it
SerializeAndDecodeAgain ==
  /\ pc \in {"simple", "full"}
  /\ out.st = "Ok"
  /\ gen' = Message_serialize(out.fields)
  /\ out2' = IF pc = "simple" THEN SimpleParser_deserialize(gen')
             ELSE FullParser_deserialize(gen')
  /\ pc' = IF pc = "simple" THEN "simple_again" ELSE "full_again"
  /\ UNCHANGED <<build, var, field, into, ends, out>>

NextParser ==
  \/ TryDeserializeField
  \/ RunSimpleParser
  \/ RunFullParser
  \/ RunPartialParser
  \/ SerializeAndDecodeAgain

SpecParser == InitParser /\ [][NextParser]_vars

(***************************************************************************)
(* Specification of the decoders on nested messages: embedded fields       *)
(* inside embedded fields, up to MaxDepth levels.                          *)
(***************************************************************************)
MaxDepth == 2

NestedLeaves ==
  {Int32Field_new(BitsOf(1), BitsOf(1)),
   Int64Field_new(BitsOf(1), {50}),
   DoubleField_new(BitsOf(1), 52..61),
   FloatField_new(BitsOf(1), 23..29),
   StringField_new(BitsOf(1), <<104>>),
   BytesField_new(BitsOf(1), <<12>>),
   BytesField_new(BitsOf(1), <<128>>),
   BytesField_new(BitsOf(1), <<>>),
   BytesField_new(BitsOf(1), <<12, 128>>),
   BytesField_new(BitsOf(1), <<10, 255, 255, 255, 255, 255, 255, 255, 255, 255, 1>>),
   StartGroupField_new(BitsOf(1), {})}

\* the fields nested at most d levels deep: a leaf, or an embedded message
\* of one nested field, alone or followed by an Int32 field
RECURSIVE Nestings(_)
Nestings(d) ==
  IF d = 0 THEN NestedLeaves
  ELSE LET P == Nestings(d - 1)
       IN P \cup {EmbeddedField_new(BitsOf(1), [fields |-> <<f>>]) : f \in P}
            \cup {EmbeddedField_new(BitsOf(2),
                     [fields |-> <<f, Int32Field_new(BitsOf(1), BitsOf(1))>>]) : f \in P}

InitNested ==
  /\ build \in {"debug", "release"}
  /\ pc = "input"
  /\ \E f \in Nestings(MaxDepth), t \in {<<>>, <<12>>} :
       /\ into = Message_serialize(<<f>>) \o t
       /\ ends = FieldEnds(<<f>>, 0)
  /\ var = {} /\ gen = <<>> /\ field = NoField
  /\ out = NoOut /\ out2 = NoOut

SpecNested == InitNested /\ [][NextParser]_vars

(***************************************************************************)
(* Specification of the varint primitives: a value is serialized and read  *)
(* back, or a raw buffer is read.                                          *)
(***************************************************************************)
InitVarint ==
  /\ build \in {"debug", "release"}
  /\ \/ pc = "value" /\ var \in U64Values /\ gen = <<>>
     \/ pc = "raw" /\ var = {} /\ gen \in RawVarints
  /\ field = NoField /\ into = <<>> /\ ends = <<>>
  /\ out = NoOut /\ out2 = NoOut

SerializeVarint ==
  /\ pc = "value"
  /\ gen' = serialize_varint(var)
  /\ pc' = "serialized"
  /\ UNCHANGED <<build, var, field, into, ends, out, out2>>

DeserializeVarint ==
  /\ pc \in {"serialized", "raw"}
  /\ out' = deserialize_varint(gen)
  /\ pc' = IF pc = "serialized" THEN "roundtrip" ELSE "decoded"
  /\ UNCHANGED <<build, var, gen, field, into, ends, out2>>

NextVarint == SerializeVarint \/ DeserializeVarint

SpecVarint == InitVarint /\ [][NextVarint]_vars

(***************************************************************************)
(* The zigzag and tag primitives applied to sampled values: var is the     *)
(* argument, out the result of the encoder, out2 of the decoder.           *)
(***************************************************************************)
WireTypes == {Varint, Double, Buffer, StartGroup, EndGroup, Float}

UtilsValues == U64Values \cup {Low(Bit64, 61), {60}, {61}}

InitUtils ==
  /\ build \in {"debug", "release"}
  /\ pc = "value" /\ var \in UtilsValues
  /\ gen = <<>> /\ field = NoField /\ into = <<>> /\ ends = <<>>
  /\ out = NoOut /\ out2 = NoOut

\* encode_zigzag_s32(var as i32), for the values that are an i32 bit pattern
EncodeZigZag32 ==
  /\ pc = "value" /\ var \subseteq 0..31
  /\ out' = [result |-> encode_zigzag_s32(var)]
  /\ pc' = "zigzag32"
  /\ UNCHANGED <<build, var, gen, field, into, ends, out2>>

DecodeZigZag32 ==
  /\ pc = "zigzag32"
  /\ out2' = [result |-> decode_zigzag_s32(out.result)]
  /\ pc' = "zigzag32_back"
  /\ UNCHANGED <<build, var, gen, field, into, ends, out>>

EncodeZigZag64 ==
  /\ pc = "value"
  /\ out' = [result |-> encode_zigzag_s64(var)]
  /\ pc' = "zigzag64"
  /\ UNCHANGED <<build, var, gen, field, into, ends, out2>>

DecodeZigZag64 ==
  /\ pc = "zigzag64"
  /\ out2' = [result |-> decode_zigzag_s64(out.result)]
  /\ pc' = "zigzag64_back"
  /\ UNCHANGED <<build, var, gen, field, into, ends, out>>

\* generate_key(var, wire_type)
GenerateKey ==
  /\ pc = "value"
  /\ \E wire_type \in WireTypes :
       out' = [key |-> generate_key(var, wire_type), wire_type |-> wire_type]
  /\ pc' = "key"
  /\ UNCHANGED <<build, var, gen, field, into, ends, out2>>

ParseKey ==
  /\ pc = "key"
  /\ out2' = parse_key(out.key)
  /\ pc' = "key_back"
  /\ UNCHANGED <<build, var, gen, field, into, ends, out>>

NextUtils ==
  \/ EncodeZigZag32
  \/ DecodeZigZag32
  \/ EncodeZigZag64
  \/ DecodeZigZag64
  \/ GenerateKey
  \/ ParseKey

SpecUtils == InitUtils /\ [][NextUtils]_vars

(***************************************************************************)
(* Specification of one codec on arbitrary bytes: the buffer is a tag, for *)
(* the wire types Varint and Buffer a varint (the value, resp. the         *)
(* declared length), and some bytes; one codec is run on it, or the codec  *)
(* the factory builds for one type of the order.  var is the varint after  *)
(* the tag, ends the length of the tag, field the codec and the type that  *)
(* was asked for.                                                          *)
(***************************************************************************)
\* number of bytes after the tag and the varint
MaxTail == 9

CodecValues ==
  {BitsOf(k) : k \in 0..3}
  \cup {{31}, {32}, {40}, {49}, {50}, Low(Bit64, 32), Bit64}
  \cup {Bit64 \ BitsOf(k) : k \in {1, 10, 11}}

CodecTails == {Rep(c, k) : c \in {1, 104}, k \in 0..MaxTail}

FieldTypes == {SimpleFieldsOrder[n] : n \in 1..Len(SimpleFieldsOrder)}

Codecs ==
  {"Int32Field", "Int64Field", "UInt32Field", "UInt64Field", "SInt32Field",
   "SInt64Field", "BoolField", "Fixed32Field", "SFixed32Field", "FloatField",
   "Fixed64Field", "SFixed64Field", "DoubleField", "StringField",
   "BytesField", "EmbeddedField", "StartGroupField"}

HasVarint(wire) == wire \in {Varint, Buffer}

InitCodec ==
  /\ build \in {"debug", "release"}
  /\ pc = "bytes"
  /\ \E number \in {BitsOf(1), BitsOf(16)}, wire \in WireTypes, tail \in CodecTails :
       /\ var \in (IF HasVarint(wire) THEN CodecValues ELSE {{}})
       /\ gen = serialize_varint(generate_key(number, wire))
       /\ into = gen \o (IF HasVarint(wire) THEN serialize_varint(var) ELSE <<>>)
                     \o tail
       /\ ends = <<Len(gen)>>
  /\ field = NoField
  /\ out = NoOut /\ out2 = NoOut

\* try_deserialize_specific_field(&into, field_type)
TrySpecificField ==
  /\ pc = "bytes"
  /\ \E field_type \in FieldTypes :
       /\ field' = [codec |-> FieldType_into(field_type), field_type |-> field_type]
       /\ out' = try_deserialize_specific_field(into, field_type)
  /\ pc' = "specific"
  /\ UNCHANGED <<build, var, gen, into, ends, out2>>

\* XField::default().deserialize(&into)
DeserializeCodec ==
  /\ pc = "bytes"
  /\ \E codec \in Codecs :
       /\ field' = [codec |-> codec, field_type |-> "None"]
       /\ out' = Deserialize(codec, into)
  /\ pc' = "codec"
  /\ UNCHANGED <<build, var, gen, into, ends, out2>>

NextCodec == TrySpecificField \/ DeserializeCodec

SpecCodec == InitCodec /\ [][NextCodec]_vars

(***************************************************************************)
(* Claims about the varint primitives                                      *)
(***************************************************************************)
AllContinuation(g) == \A i \in 1..Len(g) : g[i] >= 128

\* C1: for every u64 v, deserialize_varint(serialize_varint(v)) returns
\* (v, n) where n is the number of bytes serialize_varint(v) produced.
C1_VarintRoundTrip ==
  pc = "roundtrip" =>
    out = [st |-> "Ok", result |-> var, readed |-> Len(gen)]

C1_Witness ==
  pc = "roundtrip" /\ Len(gen) = 10 /\ out.st = "Ok" /\ out.result = var

\* C2: deserialize_varint fails whenever every byte of its input has the
\* continuation bit set (the input ends before a terminating byte).
C2_TruncatedVarintFails ==
  (pc = "decoded" /\ AllContinuation(gen)) => out.st = "Err"

(***************************************************************************)
(* Claims about the field codecs                                           *)
(***************************************************************************)
\* C3: truncation safety: decoding any proper prefix of a valid encoded
\* field fails with an error; it never succeeds and never panics.
C3_TruncationSafety ==
  pc = "decoded_cut" => out.st = "Err"

\* C4: encode/decode inverse: for every freshly constructed field of each
\* of the 17 types, deserialize(serialize(field)) succeeds, yields the same
\* field number and value, and consumes the whole encoding.
C4_EncodeDecodeInverse ==
  pc = "decoded" =>
    /\ out.st = "Ok"
    /\ out.field.number = field.number
    /\ out.field.data = field.data
    /\ out.i = Len(gen)

(***************************************************************************)
(* Claims about the decoders                                               *)
(***************************************************************************)
\* the buffer is an encoded message with no trailing bytes
NoTrailer == ends # <<>> /\ ends[Len(ends)] = Len(into)

\* where the k-th encoded field of the buffer starts
FieldStart(k) == IF k = 1 THEN 0 ELSE ends[k - 1]

\* Two fields are the same field: same codec and label, same number, same
\* value (for an embedded field its raw payload and its nested fields).
RECURSIVE SameFields(_, _)
SameField(f, g) ==
  /\ f.codec = g.codec
  /\ f.type_ = g.type_
  /\ f.number = g.number
  /\ IF f.codec = "EmbeddedField"
     THEN f.raw = g.raw /\ SameFields(f.data.fields, g.data.fields)
     ELSE f.data = g.data

SameFields(p, q) ==
  /\ Len(p) = Len(q)
  /\ \A k \in 1..Len(p) : SameField(p[k], q[k])

\* C5: message round-trip stability: decoding M.serialize() with the parser
\* that returned M succeeds and yields the same sequence of field types,
\* numbers and values.
C5_MessageRoundTrip ==
  pc \in {"simple_again", "full_again"} =>
    out2.st = "Ok" /\ SameFields(out.fields, out2.fields)

\* The wire format, read independently of the decoders: the length of the
\* terminated varint at the start of b (0 if there is none in 10 bytes),
\* the length of the well-formed field at the start of b (0 if none), and
\* whether b is a sequence of one or more well-formed fields.
RefVarintLen(b) ==
  LET T == {i \in 1..Len(b) : i <= 10 /\ b[i] < 128}
  IN IF T = {} THEN 0 ELSE CHOOSE i \in T : \A j \in T : i <= j

RefFieldLen(b) ==
  LET n == RefVarintLen(b)
      rest == SliceFrom(b, n)
      l == RefVarintLen(rest)
      wt == b[1] % 8
  IN IF n = 0 THEN 0
     ELSE CASE wt = 0 -> IF l = 0 THEN 0 ELSE n + l
            [] wt = 1 -> IF Len(rest) >= 8 THEN n + 8 ELSE 0
            [] wt = 5 -> IF Len(rest) >= 4 THEN n + 4 ELSE 0
            [] wt = 3 -> n
            [] wt = 2 ->
                 IF l = 0 THEN 0
                 ELSE LET size == deserialize_varint(rest).result
                      IN IF GtNat(size, Len(rest) - l) THEN 0
                         ELSE n + l + NatOf(size)
            [] OTHER -> 0

RECURSIVE RefValid(_)
RefValid(b) ==
  /\ b # <<>>
  /\ LET l == RefFieldLen(b)
     IN l > 0 /\ (l = Len(b) \/ RefValid(SliceFrom(b, l)))

\* the k-th encoded field of the buffer is length-delimited
IsLenField(k) == into[FieldStart(k) + 1] % 8 = 2

\* the payload of the k-th encoded field, a length-delimited one
PayloadOf(k) ==
  LET b == Slice(into, FieldStart(k), ends[k])
      n == RefVarintLen(b)
      l == RefVarintLen(SliceFrom(b, n))
  IN SliceFrom(b, n + l)

\* C6: embedded fallthrough: FullParser decodes every length-delimited
\* field whose payload is not a valid field sequence as a Bytes field, never
\* as Embedded, and the decode of the message does not fail because of it.
C6_EmbeddedFallthrough ==
  (pc = "full" /\ NoTrailer) =>
    \A k \in 1..Len(ends) :
      (IsLenField(k) /\ ~RefValid(PayloadOf(k))) =>
        /\ out.st = "Ok"
        /\ Len(out.fields) = Len(ends)
        /\ out.fields[k].codec = "BytesField"

\* C7: scanning completeness: when the buffer is a valid encoded message M1
\* followed by a valid encoded message M2, the map of deserialize_map has
\* the key (0, len(M1)) and the key (len(M1), len(M1) + len(M2)).
C7_ScanningCompleteness ==
  (pc = "map" /\ NoTrailer) =>
    \A k \in 1..(Len(ends) - 1) :
      /\ out.st = "Ok"
      /\ \E e \in out.map : e.start = 0 /\ e.end = ends[k]
      /\ \E e \in out.map : e.start = ends[k] /\ e.end = Len(into)

\* the priority order as the claim lists it, and the codec of each type
C8_Order ==
  <<"Int32", "Int64", "UInt32", "UInt64", "SInt32", "SInt64", "Bool",
    "Fixed64", "SFixed64", "Double", "Fixed32", "SFixed32", "Float",
    "String", "Embedded", "Bytes", "StartGroup">>

OwnCodec(t) == IF t = "SFixed32" THEN "SFixed32Field" ELSE FieldType_into(t)

Accepting(b) ==
  {n \in 1..Len(C8_Order) : Deserialize(OwnCodec(C8_Order[n]), b).st = "Ok"}

\* C8: priority-order selection: try_deserialize_field returns the decode
\* of the first type of the order whose codec accepts the bytes, and fails
\* with an error iff no type accepts.
C8_PriorityOrder ==
  pc = "field" =>
    IF Accepting(into) = {} THEN out.st = "Err"
    ELSE LET n == CHOOSE i \in Accepting(into) : \A j \in Accepting(into) : i <= j
         IN out = Deserialize(OwnCodec(C8_Order[n]), into)

\* the cursor positions of a decode: the sums of the first k byte counts
CursorPositions(sizes) == {Sum(SubSeq(sizes, 1, k)) : k \in 0..(Len(sizes) - 1)}

\* a one-byte tag of wire type 4, 6 or 7 at offset p: no type accepts it
NoTypeTagAt(p) == into[p + 1] < 128 /\ into[p + 1] % 8 \in {4, 6, 7}

\* the buffer is an encoded message followed by a lone end-group tag
EndGroupTrailer ==
  /\ ends # <<>>
  /\ Len(into) = ends[Len(ends)] + 1
  /\ into[Len(into)] = 12

C10_SpanInvariant ==
  (pc = "map" /\ out.st = "Ok") =>
    \A e \in out.map :
      /\ e.start < e.end
      /\ e.end <= Len(into)
      /\ e.fields # <<>>
      /\ e.end - e.start = Sum(e.sizes)

C10_Witness ==
  pc = "map" /\ out.st = "Ok" /\ Cardinality(out.map) >= 2

\* the entries of the map whose key starts at s
EntriesAt(s) == {e \in out.map : e.start = s}

\* C11: for every start offset s, the map of deserialize_map has an entry
\* with start s iff the non-failing decode of buffer[s..] yields at least
\* one field; the entry's key is (s, s + consumed) and its message is that
\* decode's; there is one entry per start, so that the map's key order is
\* the order of the start offsets.
C11_MapPerOffset ==
  (pc = "map" /\ out.st = "Ok") =>
    /\ \A e \in out.map : e.start \in 0..(Len(into) - 1)
    /\ \A s \in 0..Len(into) :
         /\ EntriesAt(s) # {} <=>
              PartialParser_deserialize_fields(SliceFrom(into, s)).fields # <<>>
         /\ \A e \in EntriesAt(s) :
              /\ EntriesAt(s) = {e}
              /\ e.end = s + PartialParser_deserialize_fields(SliceFrom(into, s)).index
              /\ e.fields = PartialParser_deserialize_fields(SliceFrom(into, s)).fields

C11_Witness ==
  /\ pc = "map" /\ out.st = "Ok"
  /\ \E s \in 1..Len(into) : EntriesAt(s) # {} /\ EntriesAt(s - 1) = {}

\* C12: the scanning decoder never fails: deserialize_fields of the
\* PartialParser returns Ok for every slice, and deserialize_map returns a
\* map for every buffer, without error or panic.
C12_ScanNeverFails ==
  pc = "map" =>
    /\ PartialParser_deserialize_fields(into).st = "Ok"
    /\ out.st = "Ok"

(***************************************************************************)
(* Claims about the zigzag and tag primitives                              *)
(***************************************************************************)
\* C13: zigzag round trip: decode_zigzag_s32(encode_zigzag_s32(x)) = x for
\* every i32 x and decode_zigzag_s64(encode_zigzag_s64(x)) = x for every
\* i64 x, i32::MIN and i64::MIN included.
C13_ZigZagRoundTrip ==
  pc \in {"zigzag32_back", "zigzag64_back"} => out2.result = var

C13_Witness ==
  pc = "zigzag32_back" /\ var = {31} /\ out.result = 0..31

\* C14: tag round trip: for every field number below 2^61 and every wire
\* type in 0..5, generate_key is (field_number << 3) | wire_type and
\* parse_key of it gives back the field number and the wire type.
C14_TagRoundTrip ==
  (pc = "key_back" /\ var \cap (61..63) = {}) =>
    /\ out.key = Shl(var, 3) \cup BitsOfByte(out.wire_type)
    /\ out2.index = var
    /\ out2.type_int = out.wire_type

C14_Witness ==
  pc = "key_back" /\ var = 0..60 /\ out.wire_type = 5

(***************************************************************************)
(* Claims about the wire encoding of a field                               *)
(***************************************************************************)
\* The encoding the claim describes, written from the wire format: the
\* zigzag form of a w-bit two's complement pattern, and tag and payload of
\* a field of one of the eight types of the claim.
ZigZagOf(x, w) ==
  IF (w - 1) \in x
  THEN {0} \cup {b + 1 : b \in (0..(w - 2)) \ x}
  ELSE {b + 1 : b \in x}

C15_Types ==
  {"Int32Field", "Int64Field", "UInt32Field", "UInt64Field", "SInt32Field",
   "SInt64Field", "StringField", "BytesField"}

C15_Tag(f) ==
  serialize_varint(
    Shl(f.number, 3)
    \cup (IF f.codec \in {"StringField", "BytesField"} THEN {1} ELSE {}))

C15_Payload(f) ==
  CASE f.codec = "Int32Field" ->
         serialize_varint(IF 31 \in f.data THEN f.data \cup (32..63) ELSE f.data)
    [] f.codec \in {"Int64Field", "UInt32Field", "UInt64Field"} ->
         serialize_varint(f.data)
    [] f.codec = "SInt32Field" -> serialize_varint(ZigZagOf(f.data, 32))
    [] f.codec = "SInt64Field" -> serialize_varint(ZigZagOf(f.data, 64))
    [] f.codec \in {"StringField", "BytesField"} ->
         serialize_varint(BitsOf(Len(f.data))) \o f.data

\* C15: the wire encoding of a field is the varint of the tag followed by
\* the payload: the sign-extended value for Int32/Int64 (10 payload bytes
\* for a negative Int32), the unsigned value for UInt32/UInt64, the zigzag
\* form for SInt32/SInt64, a length varint and the raw bytes for String and
\* Bytes (tag and a single 0 byte for an empty string).
C15_WireEncoding ==
  (pc = "serialized" /\ field.codec \in C15_Types) =>
    /\ into = C15_Tag(field) \o C15_Payload(field)
    /\ (field.codec = "Int32Field" /\ 31 \in field.data) =>
         Len(into) = Len(C15_Tag(field)) + 10
    /\ (field.codec = "StringField" /\ field.data = <<>>) =>
         into = C15_Tag(field) \o <<0>>

C15_Witness ==
  /\ pc = "serialized" /\ field.codec = "Int32Field" /\ 31 \in field.data
  /\ Len(into) = 11

(***************************************************************************)
(* Claims about recursion, errors and progress of the decoders             *)
(***************************************************************************)
\* C16: the recursion into embedded messages is bounded by a depth limit:
\* for every input the nesting of deserialize_fields calls stays below a
\* fixed maximum, so no decode recurses without end.
C16_RecursionDepthLimit ==
  pc \in {"full", "map"} => out.st # "StackOverflow"

\* C17: when a SimpleParser or FullParser decode fails because no type
\* accepts the bytes at the cursor, the error reports the byte offset of the
\* cursor: the error of a decode that breaks after the encoded fields, at
\* an offset above 0, is not the error of the decode that breaks at offset 0.
C17_ErrorReportsOffset ==
  (pc \in {"simple", "full"} /\ EndGroupTrailer /\ out.st = "Err") =>
    out # (IF pc = "simple" THEN SimpleParser_deserialize(<<12>>)
           ELSE FullParser_deserialize(<<12>>))

\* C18: in every decoder loop the cursor strictly advances on every
\* accepted field: no accepted field has consumed zero bytes, and no loop
\* keeps appending fields at a cursor that does not move.
C18_CursorAdvances ==
  pc \in {"simple", "full", "map"} =>
    /\ out.st # "Hang"
    /\ (pc # "map" /\ out.st = "Ok") =>
         \A k \in 1..Len(out.sizes) : out.sizes[k] > 0

(***************************************************************************)
(* Claims about embedded fields in the results of the decoders             *)
(***************************************************************************)
RECURSIVE EmbeddedCovered(_, _)

\* e is the decode of the payload of the Embedded field f
EmbeddedCoveredBy(f, e, partial) ==
  /\ e.st = "Ok"
  /\ e.fields # <<>>
  /\ e.fields = f.data.fields
  /\ Sum(e.sizes) = Len(f.raw[1])
  /\ EmbeddedCovered(f.data.fields, partial)

\* every Embedded field of the list, at any nesting level, holds the fields
\* of a decode of its payload that consumes the payload exactly
EmbeddedCovered(fields, partial) ==
  \A k \in 1..Len(fields) :
    fields[k].codec = "EmbeddedField" =>
      EmbeddedCoveredBy(
        fields[k],
        deserialize_fields_loop(fields[k].raw[1], 0, <<>>, <<>>, partial),
        partial)

\* C19: in every message FullParser::deserialize returns, each Embedded
\* field, at any nesting level, holds one or more nested fields whose
\* consumed byte counts sum to the length of the raw payload of the field.
C19_EmbeddedCoverage ==
  (pc = "full" /\ out.st = "Ok") => EmbeddedCovered(out.fields, FALSE)

\* an Embedded field that holds an Embedded field was returned
C19_Witness ==
  /\ pc = "full" /\ out.st = "Ok"
  /\ \E k \in 1..Len(out.fields) :
       /\ out.fields[k].codec = "EmbeddedField"
       /\ \E j \in 1..Len(out.fields[k].data.fields) :
            out.fields[k].data.fields[j].codec = "EmbeddedField"

\* C20: the scanning decoder accepts an Embedded candidate only if its
\* payload decodes into one or more fields that consume the payload
\* exactly, and otherwise falls through to Bytes: every Embedded field of
\* every entry of a deserialize_map result has nested fields that cover
\* its whole payload.
C20_ScanEmbeddedCoverage ==
  (pc = "map" /\ out.st = "Ok") =>
    \A e \in out.map : EmbeddedCovered(e.fields, TRUE)

(***************************************************************************)
(* Claims about one codec on arbitrary bytes                               *)
(***************************************************************************)
\* the wire type of the tag of the buffer
TagWire == parse_key(deserialize_varint(gen).result).type_int

\* C21: Int32, UInt32 and SInt32 deserialize reject every varint payload
\* whose value has a bit set beyond the low 32 bits, so the stored 32-bit
\* value is the decoded varint without truncation.
C21_Rejects32Overflow ==
  (/\ pc = "codec"
   /\ field.codec \in {"Int32Field", "UInt32Field", "SInt32Field"}
   /\ TagWire = Varint
   /\ Shr(var, 32) # {}) => out.st = "Err"

\* the wire type and the number of payload bytes of a fixed-width codec
FixedWire(codec) ==
  IF codec \in {"Fixed32Field", "SFixed32Field", "FloatField"} THEN Float
  ELSE Double

FixedWidth(codec) == IF FixedWire(codec) = Float THEN 4 ELSE 8

\* C22: every fixed-width codec (Fixed32, SFixed32, Float, Fixed64,
\* SFixed64, Double) checks the bounds before it slices: deserialize either
\* returns an error, when fewer than 4 resp. 8 bytes follow the tag, or
\* reads exactly the 4 resp. 8 bytes that follow the tag and returns the
\* tag length plus 4 resp. 8; it never indexes outside the slice it took.
C22_FixedWidthBoundsChecked ==
  (/\ pc = "codec"
   /\ field.codec \in {"Fixed32Field", "SFixed32Field", "FloatField",
                       "Fixed64Field", "SFixed64Field", "DoubleField"}) =>
    /\ out.st \in {"Ok", "Err"}
    /\ TagWire = FixedWire(field.codec) =>
         IF Len(into) - ends[1] < FixedWidth(field.codec)
         THEN out.st = "Err"
         ELSE /\ out.st = "Ok"
              /\ out.i = ends[1] + FixedWidth(field.codec)
              /\ out.field.data =
                   from_le_bytes(SubSeq(into, ends[1] + 1,
                                        ends[1] + FixedWidth(field.codec)))

\* where the payload of a length-delimited buffer starts
PayloadStart == ends[1] + Len(serialize_varint(var))

\* the payload a length-delimited codec returned
PayloadRead ==
  IF out.field.codec = "EmbeddedField" THEN out.field.raw[1] ELSE out.field.data

\* C23: String, Bytes and Embedded deserialize return an error and slice
\* nothing whenever tag length + length-prefix length + declared length
\* exceeds the buffer length, for every declared length up to 2^64 - 1,
\* also when the u64 sum wraps; on success the payload is exactly the
\* declared number of bytes that follow the length prefix.
C23_DeclaredLengthChecked ==
  (/\ pc = "codec"
   /\ field.codec \in {"StringField", "BytesField", "EmbeddedField"}
   /\ TagWire = Buffer) =>
    /\ GtNat(var, Len(into) - PayloadStart) => out.st = "Err"
    /\ out.st = "Ok" =>
         /\ out.i = PayloadStart + NatOf(var)
         /\ PayloadRead = SubSeq(into, PayloadStart + 1, PayloadStart + NatOf(var))

\* C24: for every type T of the priority order, a successful
\* try_deserialize_specific_field(bytes, T) is the decode of the codec of T
\* and returns a field whose type tag type_ is T.
C24_TypeTagIsRequestedType ==
  (pc = "specific" /\ out.st = "Ok") =>
    /\ out.field.codec = OwnCodec(field.field_type)
    /\ out.field.type_ = field.field_type

(***************************************************************************)
(* Claims that compare the decoders                                        *)
(***************************************************************************)
\* C25: SimpleParser::deserialize, FullParser::deserialize and
\* PartialParser::deserialize_map terminate on every finite buffer, also
\* on buffers that hold bytes with the continuation bit set and no
\* terminating byte: the call returns a result or an error, or it panics.
C25_DecodersTerminate ==
  pc \in {"simple", "full", "map"} => out.st \in {"Ok", "Err", "Panic"}

\* the codec that is first in the order among those of its wire type
FirstCodecs ==
  {"Int32Field", "Int64Field", "Fixed64Field", "Fixed32Field", "StringField",
   "EmbeddedField", "BytesField", "StartGroupField"}

RECURSIVE FromFirstCodecs(_)
FromFirstCodecs(fields) ==
  \A k \in 1..Len(fields) :
    /\ fields[k].codec \in FirstCodecs
    /\ fields[k].codec = "EmbeddedField" => FromFirstCodecs(fields[k].data.fields)

\* the codec that accepted a field whose tag has the wire type wire
WireCodec(wire, codec) ==
  /\ wire = Varint => codec \in {"Int32Field", "Int64Field"}
  /\ wire = Double => codec = "Fixed64Field"
  /\ wire = Float => codec = "Fixed32Field"

\* the fields decoded from offset start on, by the wire type of the first
\* byte of each field
ByWireCodec(start, fields, sizes) ==
  \A k \in 1..Len(fields) :
    WireCodec(into[start + Sum(SubSeq(sizes, 1, k - 1)) + 1] % 8, fields[k].codec)

\* C26: under the fixed priority order no field a decoder returns is
\* produced by the UInt32, UInt64, SInt32, SInt64, Bool, SFixed64, Double,
\* SFixed32 or Float codec: every accepted field of wire type 0 is accepted
\* by Int32 or Int64, of wire type 1 by Fixed64, of wire type 5 by Fixed32.
C26_ShadowedCodecs ==
  /\ (pc \in {"simple", "full"} /\ out.st = "Ok") =>
       /\ FromFirstCodecs(out.fields)
       /\ ByWireCodec(0, out.fields, out.sizes)
  /\ (pc = "map" /\ out.st = "Ok") =>
       \A e \in out.map :
         /\ FromFirstCodecs(e.fields)
         /\ ByWireCodec(e.start, e.fields, e.sizes)

\* a nested varint field that Int32 rejects was returned
C26_Witness ==
  /\ pc = "map" /\ out.st = "Ok"
  /\ \E e \in out.map :
       /\ e.fields[1].codec = "EmbeddedField"
       /\ \E k \in 1..Len(e.fields[1].data.fields) :
            e.fields[1].data.fields[k].codec = "Int64Field"

\* the payload of a length-delimited field
PayloadOfField(f) == IF f.codec = "EmbeddedField" THEN f.raw[1] ELSE f.data

\* the field f of the recursive decoder and the field s of the plain one
\* are the same but for the label of a length-delimited field
SameUpToLabel(f, s) ==
  /\ f.number = s.number
  /\ \/ f = s
     \/ /\ s.codec = "EmbeddedField"
        /\ f.codec \in {"EmbeddedField", "BytesField"}
        /\ PayloadOfField(f) = PayloadOfField(s)

\* full is the result of FullParser::deserialize, simple of
\* SimpleParser::deserialize on the same buffer
SameDecode(full, simple) ==
  /\ full.st = "Ok" <=> simple.st = "Ok"
  /\ full.st = "Ok" =>
       /\ Len(full.fields) = Len(simple.fields)
       /\ full.sizes = simple.sizes
       /\ \A k \in 1..Len(full.fields) :
            SameUpToLabel(full.fields[k], simple.fields[k])

Returns(r) == r.st \in {"Ok", "Err", "Panic"}

\* C27: on every buffer on which both terminate, FullParser::deserialize
\* succeeds iff SimpleParser::deserialize succeeds, and on success both
\* return the same number of top-level fields with the same byte
\* boundaries and field numbers; the results differ only in the label,
\* Embedded or Bytes, of a length-delimited field.
C27_FullMatchesSimple ==
  (pc = "full" /\ Returns(out) /\ Returns(SimpleParser_deserialize(into))) =>
    SameDecode(out, SimpleParser_deserialize(into))

\* the entry e of the map spans the whole buffer and holds as many
\* top-level fields, with the same field numbers, as the result full
WholeBufferEntry(e, full) ==
  /\ e.start = 0 /\ e.end = Len(into)
  /\ Len(e.fields) = Len(full.fields)
  /\ \A k \in 1..Len(e.fields) : e.fields[k].number = full.fields[k].number

\* C28: for every non-empty buffer on which FullParser::deserialize
\* succeeds, the map PartialParser::deserialize_map returns has the key
\* (0, len(buffer)), and its message has the same number of top-level
\* fields with the same field numbers as the FullParser result.
C28_ScanCoversFullDecode ==
  (pc = "map" /\ into # <<>> /\ FullParser_deserialize(into).st = "Ok") =>
    /\ out.st = "Ok"
    /\ \E e \in out.map : WholeBufferEntry(e, FullParser_deserialize(into))

\* the entry t of the map is the entry e without its first field
SuffixEntry(e, t) ==
  /\ t.start = e.start + e.sizes[1]
  /\ t.end = e.end
  /\ t.fields = Tail(e.fields)

\* C29: suffix consistency of the scan: if the map of deserialize_map has
\* an entry (s, e) whose message has two or more top-level fields and
\* whose first field consumed c bytes, then it has the entry (s + c, e),
\* and the fields of that entry are the remaining fields of the first.
C29_SuffixConsistency ==
  (pc = "map" /\ out.st = "Ok") =>
    \A e \in out.map :
      Len(e.fields) >= 2 => \E t \in out.map : SuffixEntry(e, t)

\* the map has an entry of two fields that starts inside the buffer
C29_Witness ==
  /\ pc = "map" /\ out.st = "Ok"
  /\ \E e \in out.map : e.start > 0 /\ Len(e.fields) >= 2

(***************************************************************************)
(* Claims about the arithmetic of deserialize_varint                       *)
(***************************************************************************)
\* the bytes the loop of deserialize_varint visits: up to the first byte
\* without the continuation bit, or all of them
Visited(g) ==
  {i \in 1..Len(g) : \A j \in 1..(i - 1) : g[j] >= 128}

\* the value of the visited groups whose shift is below 64 bits
InRangeGroups(g) ==
  UNION {Shl(BitsOfByte(g[i] % 128), 7 * (i - 1)) :
           i \in {j \in Visited(g) : 7 * (j - 1) < 64}}

\* C30: deserialize_varint never shifts a 7-bit group left by 64 or more
\* bits and never overflows u64 arithmetic, also on inputs with more than
\* 10 consecutive bytes that have the continuation bit set: the call does
\* not panic, and its result holds no bits of a group past the 64th bit.
C30_ShiftInRange ==
  pc = "decoded" =>
    /\ out.st # "Panic"
    /\ out.st = "Ok" => out.result = InRangeGroups(gen)

====
